---- MODULE Spec2Model ----
(***************************************************************************)
(* A model of src/jh.py: the directory-backed job queue (JobQueue), its    *)
(* on-disk job records, and the single-slot JobRunner.                     *)
(*                                                                         *)
(* Strings are sequences of tokens.  A token is an atomic piece of text:   *)
(* a record key ("cmd:"), a blank (" "), a comma, a decimal digit, the     *)
(* literal "none", a word.  Formatting and parsing are computed on these   *)
(* sequences the way the Python string methods compute them.               *)
(***************************************************************************)
EXTENDS Integers, Sequences, FiniteSets, TLC

\* ------------------------------------------------------------------ bounds
\* How many queue actions (add, rm, run) the clients start beside a running
\* runner; the clock that stamps a submission ticks with each of them.
MaxCalls == 3
\* How many actions (add, rm, list) a client alone starts, one after another.
MaxSeqCalls == 4
\* How many jobs an index handed to oldest() holds.
\* the lines a pipe holds before the process writing to it blocks
PipeLines == 1
MaxIndex == 3

\* ----------------------------------------------------------------- strings
SP == " "
Digits == <<"0", "1", "2", "3", "4", "5", "6", "7", "8", "9">>
IsDigit(tok) == \E i \in 1..Len(Digits) : Digits[i] = tok
DigitVal(tok) == (CHOOSE i \in 1..Len(Digits) : Digits[i] = tok) - 1

RECURSIVE LStrip(_)
LStrip(s) == IF s # <<>> /\ Head(s) = SP THEN LStrip(Tail(s)) ELSE s

RECURSIVE RStrip(_)
RStrip(s) ==
    IF s # <<>> /\ s[Len(s)] = SP THEN RStrip(SubSeq(s, 1, Len(s) - 1)) ELSE s

\* str.strip(): leading and trailing blanks go (the line terminator with them)
Strip(s) == RStrip(LStrip(s))

\* str.replace(key, ''): every occurrence of the key goes
Replace(s, key) == SelectSeq(s, LAMBDA tok : tok # key)

\* str.split(','): 'a,b,' gives ['a', 'b', ''] and '' gives ['']
RECURSIVE Split(_, _)
Split(s, piece) ==
    IF s = <<>> THEN <<piece>>
    ELSE IF Head(s) = "," THEN <<piece>> \o Split(Tail(s), <<>>)
    ELSE Split(Tail(s), Append(piece, Head(s)))

\* str(n) of a non-negative int
RECURSIVE IntToStr(_)
IntToStr(n) ==
    IF n < 10 THEN <<Digits[n + 1]>>
    ELSE Append(IntToStr(n \div 10), Digits[(n % 10) + 1])

\* int(s) accepts surrounding blanks and needs at least one digit
CanInt(s) ==
    /\ Strip(s) # <<>>
    /\ \A i \in 1..Len(Strip(s)) : IsDigit(Strip(s)[i])

RECURSIVE DigitsToInt(_)
DigitsToInt(s) ==
    IF s = <<>> THEN 0
    ELSE 10 * DigitsToInt(SubSeq(s, 1, Len(s) - 1)) + DigitVal(s[Len(s)])

StrToInt(s) == DigitsToInt(Strip(s))

\* Python's order on strings, for strings of digits and blanks
TokRank(tok) == IF IsDigit(tok) THEN DigitVal(tok) + 1 ELSE 0

RECURSIVE StrLess(_, _)
StrLess(s, t) ==
    IF t = <<>> THEN FALSE
    ELSE IF s = <<>> THEN TRUE
    ELSE IF TokRank(Head(s)) # TokRank(Head(t))
         THEN TokRank(Head(s)) < TokRank(Head(t))
    ELSE StrLess(Tail(s), Tail(t))

\* ------------------------------------------------------------------- jobs
None == [none |-> TRUE, ids |-> <<>>]
Gpus(ids) == [none |-> FALSE, ids |-> ids]

\* Job.__init__: the fields of a job object
Job(name, code_dir, data_dir, cmd, gpus, time, status) ==
    [name |-> name, code_dir |-> code_dir, data_dir |-> data_dir, cmd |-> cmd,
     gpus |-> gpus, time |-> time, status |-> status]

\* "no job": the None a variable holds before a job is assigned to it
NoJob == Job("", <<>>, <<>>, <<>>, None, <<>>, <<>>)

\* ------------------------------------------------------------------- disk
\* A file is the sequence of its lines; NoFile is a file that is not there.
NoFile == << <<"ENOENT">> >>

\* A job directory: exists, its two records, whether the snapshot directory
\* and the data link in it exist, and the output file.
NoDir == [exists |-> FALSE, config |-> NoFile, status |-> NoFile,
          snapshot |-> FALSE, link |-> FALSE, output |-> NoFile]

\* f.readline(): line i of the file, '' past its end
ReadLine(file, i) == IF i <= Len(file) THEN file[i] ELSE <<>>

IsFile(file) == file # NoFile

\* ------------------------------------------------------------ environment
\* The code trees submitted: one that exists and one that does not.
CodeDirs == {<<"/proj">>, <<"/gone">>}
CodeExists(path) == path = <<"/proj">>
\* The external data source; its final path component names the data link.
DataDir == <<"/data">>

\* ------------------------------------------------------ the record format
\* ''.join([str(gpu) + ',' for gpu in job.gpus])
RECURSIVE GpuStrList(_)
GpuStrList(ids) ==
    IF ids = <<>> THEN <<>>
    ELSE IntToStr(Head(ids)) \o <<",">> \o GpuStrList(Tail(ids))

\* the five lines of config.txt
ConfigLines(job) ==
    << <<"code_dir:", SP>> \o job.code_dir,
       <<"data_dir:", SP>> \o job.data_dir,
       <<"cmd:", SP>> \o job.cmd,
       <<"time:", SP>> \o job.time,
       <<"gpus:", SP>> \o (IF job.gpus.none THEN <<"none">>
                           ELSE GpuStrList(job.gpus.ids)) >>

\* the line of status.txt
StatusLines(status) == << <<"status:", SP>> \o status >>

\* copy(): the snapshot directory appears when the code tree can be copied;
\* an OSError is printed and swallowed
Copy(d, code_dir) == [d EXCEPT !.snapshot = CodeExists(code_dir)]

\* _write_status: open(status_file, 'w') needs the job directory
CanWriteStatus(d) == d.exists
WriteStatus(d, status) == [d EXCEPT !.status = StatusLines(status)]

\* a _write_job that makes the directory without removing what is there
KeepJobDir(d) == [d EXCEPT !.exists = TRUE]

\* _write_job, first half: shutil.rmtree what is there, os.makedirs
MakeJobDir(d) == [NoDir EXCEPT !.exists = TRUE]

\* _write_job, second half: snapshot, config record, status record
FillJobDir(d, job) ==
    LET snap == Copy(d, job.code_dir)
        conf == [snap EXCEPT !.config = ConfigLines(job)]
    IN  WriteStatus(conf, job.status)

\* _write_job
WriteJob(d, job) == FillJobDir(MakeJobDir(d), job)

\* the gpus line as read: 'none', or the integers between the commas
GpuPieces(g) == SelectSeq(Split(g, <<>>), LAMBDA piece : piece # <<>>)
GpusParse(g) ==
    IF g = <<"none">> THEN None
    ELSE Gpus([i \in 1..Len(GpuPieces(g)) |-> StrToInt(GpuPieces(g)[i])])
GpusCanParse(g) ==
    \/ g = <<"none">>
    \/ \A i \in 1..Len(GpuPieces(g)) : CanInt(GpuPieces(g)[i])

\* _read_status: the status line without its key
ReadStatus(d) == Strip(Replace(ReadLine(d.status, 1), "status:"))

\* the cmd line as _read_job reads it: strip, then drop the key
ReadCmd(line) == Replace(Strip(line), "cmd:")

\* _read_job: a result [exc, job]; exc is "" when a job is returned
ReadJob(d, name) ==
    LET g == Strip(Replace(ReadLine(d.config, 5), "gpus:"))
        read == Job(name,
                    Strip(Replace(ReadLine(d.config, 1), "code_dir:")),
                    Strip(Replace(ReadLine(d.config, 2), "data_dir:")),
                    ReadCmd(ReadLine(d.config, 3)),
                    IF GpusCanParse(g) THEN GpusParse(g) ELSE None,
                    Strip(Replace(ReadLine(d.config, 4), "time:")),
                    IF IsFile(d.status) THEN ReadStatus(d) ELSE <<>>)
    IN  IF ~d.exists \/ ~IsFile(d.config)
          THEN [exc |-> "FileNotFoundError", job |-> NoJob]
        ELSE IF ~GpusCanParse(g)
          THEN [exc |-> "ValueError", job |-> NoJob]
        ELSE IF ~IsFile(d.status)
          THEN [exc |-> "FileNotFoundError", job |-> NoJob]
        ELSE [exc |-> "", job |-> read]

\* ----------------------------------------------------------------- oldest
Ready == <<"ready">>
Finished == <<"finished">>
Crashed == <<"crashed">>

\* sorted(..., key=lambda job: job.time): a stable sort
InsertByTime(sorted, j) ==
    LET before == SelectSeq(sorted, LAMBDA x : ~StrLess(j.time, x.time))
        after == SelectSeq(sorted, LAMBDA x : StrLess(j.time, x.time))
    IN  before \o <<j>> \o after

RECURSIVE SortedByTime(_)
SortedByTime(s) ==
    IF s = <<>> THEN <<>>
    ELSE InsertByTime(SortedByTime(SubSeq(s, 1, Len(s) - 1)), s[Len(s)])

\* every job of the index, whatever its status
AllJobs(index) == index

\* the jobs oldest() sorts: those of the index whose status is 'ready'
ReadyJobs(index) == SelectSeq(index, LAMBDA j : j.status = Ready)

\* JobQueue.oldest
Oldest(index) ==
    LET sorted_jobs == SortedByTime(ReadyJobs(index))
    IN  IF Len(sorted_jobs) > 0 THEN sorted_jobs[1] ELSE NoJob

\* self.jobs[job_name] = curr_job on a dict that keeps insertion order
Put(index, j) ==
    IF \E i \in 1..Len(index) : index[i].name = j.name
      THEN [i \in 1..Len(index) |->
               IF index[i].name = j.name THEN j ELSE index[i]]
      ELSE Append(index, j)

IndexNames(index) == {index[i].name : i \in 1..Len(index)}

\* ------------------------------------------------------------- the shell
\* The commands submitted: one that prints a line, one that names an
\* executable that does not exist, one that prints bytes that are not UTF-8
\* and goes on running, one that writes warnings to stderr and a line to
\* stdout.
Cmds == {<<"echo", SP, "hi">>, <<"nosuch">>, <<"cat", SP, "blob">>,
         <<"noisy">>}

\* the program a command line names: its first word
Program(cmd) == IF LStrip(cmd) = <<>> THEN "" ELSE Head(LStrip(cmd))

\* What the shell started by Popen(cmd, shell=True) writes, in order: the
\* channel, the line, and whether the line decodes as UTF-8.
Events(cmd) ==
    IF Program(cmd) = "echo"
      THEN << [ch |-> "out", line |-> Tail(Tail(LStrip(cmd))), utf8 |-> TRUE] >>
    ELSE IF Program(cmd) = "cat"
      THEN << [ch |-> "out", line |-> <<"\\xff">>, utf8 |-> FALSE],
              [ch |-> "out", line |-> <<"more">>, utf8 |-> TRUE] >>
    ELSE IF Program(cmd) = "noisy"
      THEN [i \in 1..(PipeLines + 1) |->
               [ch |-> "err", line |-> <<"warning">>, utf8 |-> TRUE]]
           \o << [ch |-> "out", line |-> <<"done">>, utf8 |-> TRUE] >>
    ELSE << [ch |-> "err", line |-> <<"not", SP, "found">>, utf8 |-> TRUE] >>

\* the shell's exit code; 127 is "command not found"
ExitCode(cmd) == IF Program(cmd) \in {"echo", "cat", "noisy"} THEN 0 ELSE 127

\* a subprocess: the job it runs, what it has still to write, its exit code,
\* the lines waiting in its stderr pipe, and whether the output file its
\* supervisor holds open is still the output.txt of the job directory
NoProc == [name |-> "", events |-> <<>>, exit |-> 0, errpipe |-> 0,
           tofile |-> FALSE]

\* ------------------------------------------------------------- the state
Names == {"A", "B"}
Runner == "runner"
Clients == {"c1", "c2"}
Threads == {Runner} \cup Clients

\* The jobs submitted (code tree, command, GPU list): a command that prints
\* a line, one that names no executable, one whose output is not UTF-8, and
\* a job whose code tree does not exist.
JobSpecs == {<< <<"/proj">>, <<"echo", SP, "hi">>, None >>,
             << <<"/proj">>, <<"nosuch">>, Gpus(<<1, 0>>) >>,
             << <<"/proj">>, <<"cat", SP, "blob">>, None >>,
             << <<"/gone">>, <<"echo", SP, "hi">>, Gpus(<<1, 0>>) >>}
\* the status filters of the remove action
Filters == {Finished, <<"all">>}

\* str(datetime.datetime.now()): fixed-width, zero-padded
TimeStr(n) == <<Digits[(n \div 10) + 1], Digits[(n % 10) + 1]>>

NoExc == [in |-> "", type |-> ""]
Exc(in, type) == [in |-> in, type |-> type]

VARIABLES
    disk,        \* the queue directory: job name -> job directory
    dataPresent, \* whether the external data source exists
    jobs,        \* JobQueue.jobs, the index, in insertion order
    lock,        \* JobQueue._lock: the thread holding it, or ""
    pc,          \* where each thread is
    act,         \* the action each thread performs (start, add, rm, ...)
    job,         \* each thread's job variable (next_job, job)
    inIndex,     \* whether that job object is the one the index holds
    scan,        \* update(): the directory entries still to read
    selected,    \* the remove action: selected_jobs still to remove
    filter,      \* the remove action: opt.status
    proc,        \* the subprocess each thread's run_job supervises
    orphans,     \* subprocesses run_job left without waiting for them
    exc,         \* the exception each thread raised last: the one run_job
                 \* handles, or the one that ended the thread
    calls        \* client actions started so far: the clock

vars == <<disk, dataPresent, jobs, lock, pc, act, job, inIndex, scan,
          selected, filter, proc, orphans, exc, calls>>

Perms(S) ==
    {s \in [1..Cardinality(S) -> S] : \A i, k \in 1..Cardinality(S) :
                                          i # k => s[i] # s[k]}

\* A state with nothing going on: the queue directory d, the index idx,
\* each thread at p[t] in its action a[t] with its job variable j[t].
Quiet(d, idx, p, a, j) ==
    /\ disk = d
    /\ dataPresent = TRUE
    /\ jobs = idx
    /\ lock = ""
    /\ pc = p
    /\ act = a
    /\ job = j
    /\ inIndex = [t \in Threads |-> FALSE]
    /\ scan = [t \in Threads |-> <<>>]
    /\ selected = [t \in Threads |-> <<>>]
    /\ filter = [t \in Threads |-> <<>>]
    /\ proc = [t \in Threads |-> NoProc]
    /\ orphans = {}
    /\ exc = [t \in Threads |-> NoExc]
    /\ calls = 0

\* The state after JobQueue(QUEUE_DIR) on the queue directory d, with the
\* threads of `running` about to start: the runner at the top of its loop,
\* a client before its first action.
InitWith(running, d) ==
    Quiet(d, <<>>,
          [t \in Threads |-> IF t \notin running THEN "off"
                             ELSE IF t = Runner THEN "update" ELSE "idle"],
          [t \in Threads |-> IF t = Runner /\ t \in running
                                THEN "start" ELSE ""],
          [t \in Threads |-> NoJob])

\* an exception leaves the call `in` and ends the thread
Raise(t, in, type) ==
    /\ pc' = [pc EXCEPT ![t] = "raised"]
    /\ exc' = [exc EXCEPT ![t] = Exc(in, type)]

\* a job directory is removed or made anew: a file held open in it is no
\* longer the file of that path
Unlinked(n) ==
    [t \in Threads |-> IF proc[t].name = n
                         THEN [proc[t] EXCEPT !.tofile = FALSE] ELSE proc[t]]

\* a single client is given MaxSeqCalls actions, threads together MaxCalls
CallLimit ==
    IF \A t \in Threads \ {"c1"} : pc[t] = "off" THEN MaxSeqCalls ELSE MaxCalls

\* a client starts an action
Call(t, action) ==
    /\ pc[t] = "idle"
    /\ calls < CallLimit
    /\ calls' = calls + 1
    /\ act' = [act EXCEPT ![t] = action]

\* a client's action is over
Idle(t) ==
    /\ pc' = [pc EXCEPT ![t] = "idle"]
    /\ act' = [act EXCEPT ![t] = ""]

\* -------------------------------------------------------- JobQueue.update
\* a scan that starts from the index as the scan before left it
UpdateStartStale(t) ==
    /\ lock = ""
    /\ lock' = t
    /\ jobs' = jobs
    /\ inIndex' = [u \in Threads |-> FALSE]
    /\ \E order \in Perms({n \in Names : disk[n].exists}) :
           scan' = [scan EXCEPT ![t] = order]
    /\ pc' = [pc EXCEPT ![t] = "scanning"]

\* with self._lock: self.jobs = {}; os.listdir(self.queue_dir)
UpdateStart(t) ==
    /\ lock = ""
    /\ lock' = t
    /\ jobs' = <<>>
    /\ inIndex' = [u \in Threads |-> FALSE]
    /\ \E order \in Perms({n \in Names : disk[n].exists}) :
           scan' = [scan EXCEPT ![t] = order]
    /\ pc' = [pc EXCEPT ![t] = "scanning"]

\* one turn of the loop: isdir, _read_job, except FileNotFoundError
UpdateRead(t) ==
    /\ pc[t] = "scanning"
    /\ scan[t] # <<>>
    /\ LET n == Head(scan[t])
           r == ReadJob(disk[n], n)
       IN  /\ scan' = [scan EXCEPT ![t] = IF r.exc = "ValueError"
                                            THEN <<>> ELSE Tail(@)]
           /\ jobs' = IF r.exc = "" THEN Put(jobs, r.job) ELSE jobs
           /\ IF r.exc = "ValueError"
                THEN /\ Raise(t, "update", "ValueError")
                     /\ lock' = ""
                ELSE UNCHANGED <<pc, exc, lock>>
    /\ UNCHANGED <<disk, dataPresent, act, job, inIndex, selected, filter,
                   proc, orphans, calls>>

\* the loop is over: the lock is released and update() returns
UpdateEnd(t) ==
    /\ pc[t] = "scanning"
    /\ scan[t] = <<>>
    /\ lock' = ""
    /\ pc' = [pc EXCEPT ![t] = "updated"]
    /\ UNCHANGED <<disk, dataPresent, jobs, act, job, inIndex, scan,
                   selected, filter, proc, orphans, exc, calls>>

\* ------------------------------------------------------- JobRunner.start
\* while True: self.queue.update()
RunnerUpdate(t) ==
    /\ act[t] = "start"
    /\ pc[t] = "update"
    /\ UpdateStart(t)
    /\ UNCHANGED <<disk, dataPresent, act, job, selected, filter, proc,
                   orphans, exc, calls>>

\* next_job = self.queue.oldest(), which reads the index and takes no lock;
\* then time.sleep(1), and with no job the loop starts over
RunnerSelect(t) ==
    /\ act[t] = "start"
    /\ pc[t] = "updated"
    /\ job' = [job EXCEPT ![t] = Oldest(jobs)]
    /\ inIndex' = [inIndex EXCEPT ![t] = Oldest(jobs) # NoJob]
    /\ pc' = [pc EXCEPT ![t] = IF Oldest(jobs) = NoJob THEN "update"
                               ELSE "sleep"]
    /\ UNCHANGED <<disk, dataPresent, jobs, lock, act, scan, selected,
                   filter, proc, orphans, exc, calls>>

\* ----------------------------------------------------- JobRunner.run_job
\* os.path.exists(sl_path) follows the link: a link to a data source that
\* is not there does not "exist"
LinkPathExists(d) == d.exists /\ d.snapshot /\ d.link /\ dataPresent

\* The runner wakes from its sleep, or the run action has loaded its job:
\* run_job makes the data link, before it enters the try block.
Bind(t) ==
    /\ pc[t] \in {"sleep", "bind"}
    /\ LET n == job[t].name
           d == disk[n]
       IN  IF LinkPathExists(d)
             THEN /\ pc' = [pc EXCEPT ![t] = "launch"]
                  /\ UNCHANGED <<disk, exc>>
           ELSE IF ~(d.exists /\ d.snapshot)
             THEN /\ Raise(t, "run_job", "FileNotFoundError")
                  /\ UNCHANGED disk
           ELSE IF d.link
             THEN /\ Raise(t, "run_job", "FileExistsError")
                  /\ UNCHANGED disk
           ELSE /\ disk' = [disk EXCEPT ![n].link = TRUE]
                /\ pc' = [pc EXCEPT ![t] = "launch"]
                /\ UNCHANGED exc
    /\ UNCHANGED <<dataPresent, jobs, lock, act, job, inIndex, scan,
                   selected, filter, proc, orphans, calls>>

\* an exception raised inside the try block of run_job: the except clause
\* takes it
Caught(t, in, type) ==
    /\ pc' = [pc EXCEPT ![t] = "crash"]
    /\ exc' = [exc EXCEPT ![t] = Exc(in, type)]

\* the process run_job starts for a job
NewProc(j) ==
    [name |-> j.name, events |-> Events(j.cmd), exit |-> ExitCode(j.cmd),
     errpipe |-> 0, tofile |-> TRUE]

\* a launch that records a status of its own for the job it starts
LaunchRunning(t) ==
    /\ pc[t] = "launch"
    /\ LET n == job[t].name
           d == disk[n]
       IN  IF ~(d.exists /\ d.snapshot)
             THEN /\ Caught(t, "open", "FileNotFoundError")
                  /\ UNCHANGED <<disk, proc>>
           ELSE /\ disk' = [disk EXCEPT ![n].output = <<>>,
                                        ![n].status = StatusLines(<<"running">>)]
                /\ proc' = [proc EXCEPT ![t] = NewProc(job[t])]
                /\ pc' = [pc EXCEPT ![t] = "stream"]
                /\ UNCHANGED exc
    /\ UNCHANGED <<dataPresent, jobs, lock, act, job, inIndex, scan,
                   selected, filter, orphans, calls>>

\* open(output_file, 'w') and subprocess.Popen(cmd, cwd=snapshot_dir,
\* shell=True): the shell starts whenever its working directory exists
Launch(t) ==
    /\ pc[t] = "launch"
    /\ LET n == job[t].name
           d == disk[n]
       IN  IF ~d.exists
             THEN /\ Caught(t, "open", "FileNotFoundError")
                  /\ UNCHANGED <<disk, proc>>
           ELSE IF ~d.snapshot
             THEN /\ disk' = [disk EXCEPT ![n].output = <<>>]
                  /\ Caught(t, "Popen", "FileNotFoundError")
                  /\ UNCHANGED proc
           ELSE /\ disk' = [disk EXCEPT ![n].output = <<>>]
                /\ proc' = [proc EXCEPT ![t] = NewProc(job[t])]
                /\ pc' = [pc EXCEPT ![t] = "stream"]
                /\ UNCHANGED exc
    /\ UNCHANGED <<dataPresent, jobs, lock, act, job, inIndex, scan,
                   selected, filter, orphans, calls>>

\* for line in process.stdout: decode, write; then process.wait().  A line
\* on stderr stays in its pipe, which nobody reads: with the pipe full the
\* subprocess blocks in its write.  A line that does not decode raises
\* inside the try block, and nothing waits for the subprocess.
Stream(t) ==
    /\ pc[t] = "stream"
    /\ LET n == proc[t].name
           ev == proc[t].events
       IN  IF ev = <<>>
             THEN /\ proc' = [proc EXCEPT ![t] = NoProc]
                  /\ pc' = [pc EXCEPT ![t] = "finish"]
                  /\ UNCHANGED <<disk, orphans, exc>>
           ELSE IF Head(ev).ch = "err"
             THEN /\ proc[t].errpipe < PipeLines
                  /\ proc' = [proc EXCEPT ![t].events = Tail(ev),
                                          ![t].errpipe = @ + 1]
                  /\ UNCHANGED <<disk, orphans, pc, exc>>
           ELSE IF Head(ev).utf8
             THEN /\ proc' = [proc EXCEPT ![t].events = Tail(ev)]
                  /\ disk' = IF proc[t].tofile
                               THEN [disk EXCEPT ![n].output =
                                        Append(@, Head(ev).line)]
                               ELSE disk
                  /\ UNCHANGED <<orphans, pc, exc>>
           ELSE /\ orphans' = orphans \cup {[by |-> t, name |-> n]}
                /\ proc' = [proc EXCEPT ![t] = NoProc]
                /\ Caught(t, "decode", "UnicodeDecodeError")
                /\ UNCHANGED disk
    /\ UNCHANGED <<dataPresent, jobs, lock, act, job, inIndex, scan,
                   selected, filter, calls>>

\* JobQueue.write_status as run_job calls it: job.status = status, then the
\* status record, under the lock.  The job object of the runner is the one
\* the index holds until the index is rebuilt.
SetStatus(t, status) ==
    /\ job' = [job EXCEPT ![t].status = status]
    /\ jobs' = IF inIndex[t]
                 THEN [i \in 1..Len(jobs) |->
                          IF jobs[i].name = job[t].name
                            THEN [jobs[i] EXCEPT !.status = status]
                            ELSE jobs[i]]
                 ELSE jobs

\* the status a subprocess's exit code would ask for
StatusOfExit(code) == IF code = 0 THEN Finished ELSE Crashed

\* process.wait() and the status written after it: the value wait() returns
\* is dropped
StatusAfterWait(code) == Finished

\* self.queue.write_status(job, 'finished'), the last statement of the try
Finish(t) ==
    /\ pc[t] = "finish"
    /\ lock = ""
    /\ SetStatus(t, StatusAfterWait(ExitCode(job[t].cmd)))
    /\ LET n == job[t].name
       IN  IF CanWriteStatus(disk[n])
             THEN /\ disk' = [disk EXCEPT ![n] = WriteStatus(@,
                                     StatusAfterWait(ExitCode(job[t].cmd)))]
                  /\ pc' = [pc EXCEPT ![t] = "ret"]
                  /\ UNCHANGED exc
             ELSE /\ Caught(t, "write_status", "FileNotFoundError")
                  /\ UNCHANGED disk
    /\ UNCHANGED <<dataPresent, lock, act, inIndex, scan, selected, filter,
                   proc, orphans, calls>>

\* except Exception: self.queue.write_status(job, 'crashed')
Crash(t) ==
    /\ pc[t] = "crash"
    /\ lock = ""
    /\ SetStatus(t, Crashed)
    /\ LET n == job[t].name
       IN  IF CanWriteStatus(disk[n])
             THEN /\ disk' = [disk EXCEPT ![n] = WriteStatus(@, Crashed)]
                  /\ pc' = [pc EXCEPT ![t] = "ret"]
                  /\ UNCHANGED exc
             ELSE /\ Raise(t, "run_job", "FileNotFoundError")
                  /\ UNCHANGED disk
    /\ UNCHANGED <<dataPresent, lock, act, inIndex, scan, selected, filter,
                   proc, orphans, calls>>

\* run_job returns: the runner loops, the run action is over
Return(t) ==
    /\ pc[t] = "ret"
    /\ IF act[t] = "start"
         THEN /\ pc' = [pc EXCEPT ![t] = "update"]
              /\ UNCHANGED act
         ELSE Idle(t)
    /\ job' = [job EXCEPT ![t] = NoJob]
    /\ inIndex' = [inIndex EXCEPT ![t] = FALSE]
    /\ exc' = [exc EXCEPT ![t] = NoExc]
    /\ UNCHANGED <<disk, dataPresent, jobs, lock, scan, selected, filter,
                   proc, orphans, calls>>

\* a subprocess nobody waits for ends by itself
OrphanExit ==
    /\ \E o \in orphans : orphans' = orphans \ {o}
    /\ UNCHANGED <<disk, dataPresent, jobs, lock, pc, act, job, inIndex,
                   scan, selected, filter, proc, exc, calls>>

\* ------------------------------------------------------- JobQueue.add_job
\* an add_job that removes and makes the directory without taking the lock
AddBeginUnlocked(t) ==
    /\ Call(t, "add")
    /\ \E n \in Names, sp \in JobSpecs :
         /\ job' = [job EXCEPT ![t] = Job(n, sp[1], DataDir, sp[2], sp[3],
                                          TimeStr(calls + 1), Ready)]
         /\ disk' = [disk EXCEPT ![n] = MakeJobDir(@)]
         /\ proc' = Unlinked(n)
    /\ pc' = [pc EXCEPT ![t] = "writing"]
    /\ UNCHANGED <<dataPresent, jobs, lock, inIndex, scan, selected, filter,
                   orphans, exc>>

\* The add action.  The job is made from the arguments and the clock; with
\* self._lock, _write_job removes the old directory and makes a new one.
AddBegin(t) ==
    /\ Call(t, "add")
    /\ \E n \in Names, sp \in JobSpecs :
         /\ job' = [job EXCEPT ![t] = Job(n, sp[1], DataDir, sp[2], sp[3],
                                          TimeStr(calls + 1), Ready)]
         /\ disk' = [disk EXCEPT ![n] = MakeJobDir(@)]
         /\ proc' = Unlinked(n)
    /\ lock = ""
    /\ lock' = t
    /\ pc' = [pc EXCEPT ![t] = "writing"]
    /\ UNCHANGED <<dataPresent, jobs, inIndex, scan, selected, filter,
                   orphans, exc>>

\* _write_job fills the directory; the lock is released and the job returned.
\* copytree makes the directory again if it is gone; otherwise the config
\* record cannot be opened in a directory that is gone.
AddWrite(t) ==
    /\ pc[t] = "writing"
    /\ lock' = ""
    /\ LET n == job[t].name
           d == disk[n]
       IN  IF d.exists \/ CodeExists(job[t].code_dir)
             THEN /\ disk' = [disk EXCEPT ![n] =
                                FillJobDir([d EXCEPT !.exists = TRUE], job[t])]
                  /\ Idle(t)
                  /\ UNCHANGED exc
             ELSE /\ Raise(t, "add_job", "FileNotFoundError")
                  /\ UNCHANGED <<disk, act>>
    /\ job' = [job EXCEPT ![t] = NoJob]
    /\ UNCHANGED <<dataPresent, jobs, inIndex, scan, selected, filter, proc,
                   orphans, calls>>

\* -------------------------------------------------------- JobQueue.rm_job
\* shutil.rmtree(job_dir), first half: what the directory holds is removed.
\* rm_job takes no lock.
RmTree(t, n) ==
    /\ job' = [job EXCEPT ![t] = [NoJob EXCEPT !.name = n]]
    /\ IF disk[n].exists
         THEN /\ disk' = [disk EXCEPT ![n] = [NoDir EXCEPT !.exists = TRUE]]
              /\ proc' = Unlinked(n)
              /\ pc' = [pc EXCEPT ![t] = "rmdir"]
              /\ UNCHANGED exc
         ELSE /\ Raise(t, "rm_job", "FileNotFoundError")
              /\ UNCHANGED <<disk, proc>>

\* the rm action with a name
RmByName(t) ==
    /\ Call(t, "rm_name")
    /\ \E n \in Names : RmTree(t, n)
    /\ UNCHANGED <<dataPresent, jobs, lock, inIndex, scan, selected, filter,
                   orphans>>

\* shutil.rmtree, second half: the directory itself is removed; it must
\* still be there and be empty
RmDir(t) ==
    /\ pc[t] = "rmdir"
    /\ LET n == job[t].name
       IN  IF disk[n] = [NoDir EXCEPT !.exists = TRUE]
             THEN /\ disk' = [disk EXCEPT ![n] = NoDir]
                  /\ IF act[t] = "rm"
                       THEN /\ pc' = [pc EXCEPT ![t] = "removing"]
                            /\ UNCHANGED act
                       ELSE Idle(t)
                  /\ UNCHANGED exc
             ELSE /\ Raise(t, "rm_job", IF disk[n].exists THEN "OSError"
                                        ELSE "FileNotFoundError")
                  /\ UNCHANGED <<disk, act>>
    /\ job' = [job EXCEPT ![t] = NoJob]
    /\ UNCHANGED <<dataPresent, jobs, lock, inIndex, scan, selected, filter,
                   proc, orphans, calls>>

\* ------------------------------------------- the rm action with a status
\* queue.update()
RmStatusBegin(t) ==
    /\ Call(t, "rm")
    /\ \E f \in Filters : filter' = [filter EXCEPT ![t] = f]
    /\ UpdateStart(t)
    /\ UNCHANGED <<disk, dataPresent, job, selected, proc, orphans, exc>>

\* selected_jobs: the jobs of the index, those of the status asked for
SelectByStatus(index, f) ==
    IF f = <<"all">> THEN index
    ELSE SelectSeq(index, LAMBDA j : j.status = f)

Filter(t) ==
    /\ act[t] = "rm"
    /\ pc[t] = "updated"
    /\ selected' = [selected EXCEPT ![t] = SelectByStatus(jobs, filter[t])]
    /\ pc' = [pc EXCEPT ![t] = "removing"]
    /\ UNCHANGED <<disk, dataPresent, jobs, lock, act, job, inIndex, scan,
                   filter, proc, orphans, exc, calls>>

\* for job in selected_jobs: queue.rm_job(job)
RmSelected(t) ==
    /\ act[t] = "rm"
    /\ pc[t] = "removing"
    /\ selected[t] # <<>>
    /\ selected' = [selected EXCEPT ![t] = Tail(@)]
    /\ RmTree(t, Head(selected[t]).name)
    /\ UNCHANGED <<dataPresent, jobs, lock, act, inIndex, scan, filter,
                   orphans, calls>>

\* the loop is over
RmDone(t) ==
    /\ act[t] = "rm"
    /\ pc[t] = "removing"
    /\ selected[t] = <<>>
    /\ Idle(t)
    /\ filter' = [filter EXCEPT ![t] = <<>>]
    /\ UNCHANGED <<disk, dataPresent, jobs, lock, job, inIndex, scan,
                   selected, proc, orphans, exc, calls>>

\* ------------------------------------------------------- the run action
\* job = queue.load_job(opt.name), under the lock; jr.run_job(job) follows
LoadJob(t) ==
    /\ Call(t, "run")
    /\ lock = ""
    /\ \E n \in Names :
         LET r == ReadJob(disk[n], n)
         IN  IF ~disk[n].exists
               THEN /\ Raise(t, "load_job", "ValueError")
                    /\ UNCHANGED job
             ELSE IF r.exc # ""
               THEN /\ Raise(t, "load_job", r.exc)
                    /\ UNCHANGED job
             ELSE /\ job' = [job EXCEPT ![t] = r.job]
                  /\ pc' = [pc EXCEPT ![t] = "bind"]
                  /\ UNCHANGED exc
    /\ UNCHANGED <<disk, dataPresent, jobs, lock, inIndex, scan, selected,
                   filter, proc, orphans>>

\* ------------------------------------------------------ the list action
\* queue.update()
ListBegin(t) ==
    /\ Call(t, "list")
    /\ UpdateStart(t)
    /\ UNCHANGED <<disk, dataPresent, job, selected, filter, proc, orphans,
                   exc>>

\* the jobs are printed
ListReturn(t) ==
    /\ act[t] = "list"
    /\ pc[t] = "updated"
    /\ Idle(t)
    /\ UNCHANGED <<disk, dataPresent, jobs, lock, job, inIndex, scan,
                   selected, filter, proc, orphans, exc, calls>>

\* ------------------------------------------------------- specification
\* The runner and two clients on an empty queue directory.
EmptyDisk == [n \in Names |-> NoDir]

Init == InitWith(Threads, EmptyDisk)

Next ==
    \/ RunnerUpdate(Runner)
    \/ \E t \in Threads : UpdateRead(t)
    \/ \E t \in Threads : UpdateEnd(t)
    \/ RunnerSelect(Runner)
    \/ \E t \in Threads : Bind(t)
    \/ \E t \in Threads : Launch(t)
    \/ \E t \in Threads : Stream(t)
    \/ \E t \in Threads : Finish(t)
    \/ \E t \in Threads : Crash(t)
    \/ \E t \in Threads : Return(t)
    \/ OrphanExit
    \/ \E t \in Clients : AddBegin(t)
    \/ \E t \in Clients : AddWrite(t)
    \/ \E t \in Clients : RmByName(t)
    \/ \E t \in Clients : RmDir(t)
    \/ \E t \in Clients : RmStatusBegin(t)
    \/ \E t \in Clients : Filter(t)
    \/ \E t \in Clients : RmSelected(t)
    \/ \E t \in Clients : RmDone(t)
    \/ \E t \in Clients : LoadJob(t)

Spec == Init /\ [][Next]_vars

\* ------------------------------------------- a client alone: add, rm, list
InitSeq == InitWith({"c1"}, EmptyDisk)

NextSeq ==
    \/ AddBegin("c1")
    \/ AddWrite("c1")
    \/ RmByName("c1")
    \/ RmDir("c1")
    \/ ListBegin("c1")
    \/ UpdateRead("c1")
    \/ UpdateEnd("c1")
    \/ ListReturn("c1")

SpecSeq == InitSeq /\ [][NextSeq]_vars

\* ----------------------------------------- a client alone: add and run
\* The job directory of a job whose command writes to stderr, as add_job
\* leaves it.
NoisyJob(n) == Job(n, <<"/proj">>, DataDir, <<"noisy">>, None, TimeStr(0),
                   Ready)

\* The queue directory is empty or holds that job; the data source is there
\* or is not.
InitRun ==
    \E d \in {EmptyDisk,
               [EmptyDisk EXCEPT !["A"] = WriteJob(NoDir, NoisyJob("A"))]} :
        /\ disk = d
        /\ dataPresent \in BOOLEAN
        /\ jobs = <<>>
        /\ lock = ""
        /\ pc = [t \in Threads |-> IF t = "c1" THEN "idle" ELSE "off"]
        /\ act = [t \in Threads |-> ""]
        /\ job = [t \in Threads |-> NoJob]
        /\ inIndex = [t \in Threads |-> FALSE]
        /\ scan = [t \in Threads |-> <<>>]
        /\ selected = [t \in Threads |-> <<>>]
        /\ filter = [t \in Threads |-> <<>>]
        /\ proc = [t \in Threads |-> NoProc]
        /\ orphans = {}
        /\ exc = [t \in Threads |-> NoExc]
        /\ calls = 0

NextRun ==
    \/ AddBegin("c1")
    \/ AddWrite("c1")
    \/ LoadJob("c1")
    \/ Bind("c1")
    \/ Launch("c1")
    \/ Stream("c1")
    \/ Finish("c1")
    \/ Crash("c1")
    \/ Return("c1")
    \/ OrphanExit

SpecRun == InitRun /\ [][NextRun]_vars

\* ------------------------------ the runner on a queue that holds two jobs
\* Two jobs submitted one after the other, in either order of the names;
\* the runner runs them while a client lists the queue.
OrderDisks ==
    {[n \in Names |->
         WriteJob(NoDir, Job(n, <<"/proj">>, DataDir, cmd[n], None,
                             TimeStr(IF n = first THEN 1 ELSE 2), Ready))] :
        first \in Names, cmd \in [Names -> Cmds \ {<<"noisy">>}]}

InitOrder == \E d \in OrderDisks : InitWith({Runner, "c1"}, d)

NextOrder ==
    \/ RunnerUpdate(Runner)
    \/ \E t \in {Runner, "c1"} : UpdateRead(t)
    \/ \E t \in {Runner, "c1"} : UpdateEnd(t)
    \/ RunnerSelect(Runner)
    \/ Bind(Runner)
    \/ Launch(Runner)
    \/ Stream(Runner)
    \/ Finish(Runner)
    \/ Crash(Runner)
    \/ Return(Runner)
    \/ OrphanExit
    \/ ListBegin("c1")
    \/ ListReturn("c1")

SpecOrder == InitOrder /\ [][NextOrder]_vars

\* ------------------------- the runner while a client submits jobs, fairly
\* The runner's thread and the client's are scheduled again and again: a
\* step that stays possible is taken.
InitLive == InitWith({Runner, "c1"}, EmptyDisk)

NextLive ==
    \/ RunnerUpdate(Runner)
    \/ UpdateRead(Runner)
    \/ UpdateEnd(Runner)
    \/ RunnerSelect(Runner)
    \/ Bind(Runner)
    \/ Launch(Runner)
    \/ Stream(Runner)
    \/ Finish(Runner)
    \/ Crash(Runner)
    \/ Return(Runner)
    \/ OrphanExit
    \/ AddBegin("c1")
    \/ AddWrite("c1")

\* A turn of the scanning loop as the loop variable shows it: the directory at
\* hand leaves the listing, or the listing is dropped with the exception.
\* Among the steps of NextLive these are the UpdateRead steps, and one is
\* possible exactly when UpdateRead is.
UpdateTurn(t) ==
    /\ pc[t] = "scanning"
    /\ scan[t] # <<>>
    /\ \E rest \in {<<>>, Tail(scan[t])} : scan' = [scan EXCEPT ![t] = rest]

\* the runner's thread keeps running, a process started keeps running, and
\* an add_job that has begun is carried through
Fairness ==
    /\ WF_vars(RunnerUpdate(Runner))
    /\ WF_scan(UpdateTurn(Runner))
    /\ WF_vars(UpdateEnd(Runner))
    /\ WF_vars(RunnerSelect(Runner))
    /\ WF_vars(Bind(Runner))
    /\ WF_vars(Launch(Runner))
    /\ WF_vars(Stream(Runner))
    /\ WF_vars(Finish(Runner))
    /\ WF_vars(Crash(Runner))
    /\ WF_vars(Return(Runner))
    /\ WF_vars(OrphanExit)
    /\ WF_vars(AddWrite("c1"))

SpecLive == InitLive /\ [][NextLive]_vars /\ Fairness

\* ------------------------------- update() on a directory found as it is
\* Two records a job directory can be found with, well-formed ...
ScanJob(n) == Job(n, <<"/proj">>, DataDir, <<"echo", SP, "hi">>, None,
                  TimeStr(1), Ready)
GoodDir(n) == WriteJob(NoDir, ScanJob(n))
DoneDir(n) == WriteStatus(GoodDir(n), Finished)
\* ... and not: a record that is missing, a config record cut short (the
\* gpus line is missing), one that lacks its time line, one whose gpus
\* field holds no integer.
DropLine(file, i) == SubSeq(file, 1, i - 1) \o SubSeq(file, i + 1, Len(file))
ScanDirs(n) ==
    {NoDir, GoodDir(n), DoneDir(n),
     [GoodDir(n) EXCEPT !.config = NoFile],
     [GoodDir(n) EXCEPT !.status = NoFile],
     [GoodDir(n) EXCEPT !.config = DropLine(@, 5)],
     [GoodDir(n) EXCEPT !.config = DropLine(@, 4)],
     [GoodDir(n) EXCEPT !.config[5] = <<"gpus:", SP, "x", ",">>]}

InitScan ==
    \E d \in [Names -> UNION {ScanDirs(n) : n \in Names}] :
        /\ \A n \in Names : d[n] \in ScanDirs(n)
        /\ InitWith({"c1"}, d)

NextScan ==
    \/ ListBegin("c1")
    \/ UpdateRead("c1")
    \/ UpdateEnd("c1")
    \/ ListReturn("c1")

SpecScan == InitScan /\ [][NextScan]_vars

\* --------------------------------------- _write_job, then _read_job
\* the GPU lists and the jobs written
StoreGpus == {None, Gpus(<<>>), Gpus(<<0>>), Gpus(<<1, 0>>), Gpus(<<10, 2>>)}
StoreJobs ==
    {Job("A", code, DataDir, cmd, gpus, time, status) :
        code \in CodeDirs, cmd \in Cmds, gpus \in StoreGpus,
        time \in {TimeStr(1), TimeStr(12)}, status \in {Ready, Finished}}

InitStore ==
    \E j \in StoreJobs :
        Quiet(EmptyDisk, <<>>, [t \in Threads |-> "off"],
              [t \in Threads |-> ""],
              [t \in Threads |-> IF t = "c1" THEN j ELSE NoJob])

\* c1 writes its job
StoreWrite ==
    /\ pc["c1"] = "off"
    /\ disk' = [disk EXCEPT ![job["c1"].name] = WriteJob(@, job["c1"])]
    /\ pc' = [pc EXCEPT !["c1"] = "stored"]
    /\ UNCHANGED <<dataPresent, jobs, lock, act, job, inIndex, scan,
                   selected, filter, proc, orphans, exc, calls>>

\* c2 reads the directory c1 wrote
StoreRead ==
    /\ pc["c1"] = "stored"
    /\ LET n == job["c1"].name
           r == ReadJob(disk[n], n)
       IN  /\ job' = [job EXCEPT !["c2"] = r.job]
           /\ exc' = [exc EXCEPT !["c2"] = Exc("_read_job", r.exc)]
    /\ pc' = [pc EXCEPT !["c1"] = "read"]
    /\ UNCHANGED <<disk, dataPresent, jobs, lock, act, inIndex, scan,
                   selected, filter, proc, orphans, calls>>

NextStore == StoreWrite \/ StoreRead

SpecStore == InitStore /\ [][NextStore]_vars

\* ------------------------------------------------- oldest() on an index
OldestNames == <<"A", "B", "C", "D", "E">>
OldestTimes == {TimeStr(1), TimeStr(2), TimeStr(10), <<"1">>}
Statuses == {Ready, Finished, Crashed}

\* the indexes of up to MaxIndex jobs, the job at place i named OldestNames[i]
IndexInputs ==
    UNION {{idx \in [1..len -> [name : {OldestNames[i] : i \in 1..len},
                                code_dir : {<<"/proj">>},
                                data_dir : {DataDir},
                                cmd : {<<"echo", SP, "hi">>},
                                gpus : {None},
                                time : OldestTimes,
                                status : Statuses]] :
               \A i \in 1..len : idx[i].name = OldestNames[i]}
           : len \in 0..MaxIndex}

\* the runner has updated: the index is any of these, oldest() comes next
InitOldest ==
    \E idx \in IndexInputs :
        Quiet(EmptyDisk, idx,
              [t \in Threads |-> IF t = Runner THEN "updated" ELSE "off"],
              [t \in Threads |-> IF t = Runner THEN "start" ELSE ""],
              [t \in Threads |-> NoJob])

NextOldest == RunnerSelect(Runner)

SpecOldest == InitOldest /\ [][NextOldest]_vars

\* ==================================================================== claims
\* the status a job directory holds on disk, '' when it holds none
PersistedStatus(n) ==
    IF disk[n].exists /\ IsFile(disk[n].status) THEN ReadStatus(disk[n])
    ELSE <<>>

\* the step on which run_job ends, by returning or by raising
RunJobEnds(t) ==
    /\ pc[t] \in {"sleep", "bind", "launch", "stream", "finish", "crash"}
    /\ pc'[t] \in {"ret", "raised"}

\* C1: when run_job, past the data link, ends for a job whose command names
\* a nonexistent executable, it returns without raising and the job's
\* persisted status is then 'crashed'.  (Spec; the shell starts, exits with
\* 127, and the code records 'finished'.)
C1_MissingExecutableCrashes ==
    [][\A t \in Threads :
          (RunJobEnds(t) /\ pc[t] \in {"finish", "crash"}
              /\ Program(job[t].cmd) = "nosuch")
            => /\ pc'[t] = "ret"
               /\ PersistedStatus(job[t].name)' = Crashed]_vars

\* C2: no exception raised by a step of run_job (data link, environment,
\* launch, streaming) ever reaches the caller of run_job.  (Spec; the data
\* link is made outside the try block.)
C2_RunJobAbsorbsExceptions ==
    \A t \in Threads : ~(pc[t] = "raised" /\ exc[t].in = "run_job")

\* C3: after add_job and rm_job calls with no job run, update() leaves the
\* index holding exactly the names whose directories are on disk, once each,
\* every one with status 'ready'.  (SpecSeq)
C3_UpdateIndexesDisk ==
    \A t \in Threads :
        pc[t] = "updated" =>
            /\ IndexNames(jobs) = {n \in Names : disk[n].exists}
            /\ Len(jobs) = Cardinality({n \in Names : disk[n].exists})
            /\ \A i \in 1..Len(jobs) : jobs[i].status = Ready

\* update() has returned after four calls with one job in the index, the one
\* submitted second, and the other directory is not on disk
C3_Witness ==
    /\ pc["c1"] = "updated"
    /\ calls = 4
    /\ Len(jobs) = 1
    /\ jobs[1].time = TimeStr(2)
    /\ \E n \in Names : ~disk[n].exists

\* C4: oldest() returns None when the index holds no ready job; otherwise it
\* returns a ready job of the index whose timestamp no ready job's timestamp
\* is below; it never returns a finished or crashed job.  (SpecOldest)
C4_OldestIsMinimumReady ==
    pc[Runner] # "updated" =>
        LET r == job[Runner]
            ready == {i \in 1..Len(jobs) : jobs[i].status = Ready}
        IN  /\ ready = {} => r = NoJob
            /\ ready # {} =>
                   \E i \in ready :
                       /\ jobs[i] = r
                       /\ \A k \in ready : ~StrLess(jobs[k].time, r.time)
            /\ r.status \notin {Finished, Crashed}

\* oldest() has returned the third job of the index, passing over a finished
\* job with a smaller timestamp and a ready job with a larger one
C4_Witness ==
    /\ pc[Runner] = "sleep"
    /\ Len(jobs) = 3
    /\ job[Runner] = jobs[3]
    /\ jobs[1].status = Finished
    /\ StrLess(jobs[1].time, jobs[3].time)
    /\ jobs[2].status = Ready
    /\ StrLess(jobs[3].time, jobs[2].time)

\* C5: at most one subprocess launched by the runner is executing.  (Spec;
\* a subprocess whose output raised in run_job is left running.)
RunnerSubprocesses ==
    {<<"supervised", proc[t].name>> : t \in {u \in {Runner} : proc[u] # NoProc}}
        \cup {<<"left", o.name>> : o \in {x \in orphans : x.by = Runner}}

C5_OneSubprocess == Cardinality(RunnerSubprocesses) <= 1

\* C6: no two queue operations overlap: a thread in the middle of update,
\* add_job or rm_job is alone there.  (Spec; rm_job takes no lock.)
InQueueOp(t) == pc[t] \in {"scanning", "writing", "rmdir"}

C6_OperationsSerialized ==
    \A t, u \in Threads : t # u => ~(InQueueOp(t) /\ InQueueOp(u))

\* C7: update() never raises, and the index it returns holds exactly the job
\* directories whose records are there, complete and parsable.  (SpecScan;
\* update() catches FileNotFoundError alone and readline() returns '' past
\* the end of a record cut short.)
ConfigKeys == <<"code_dir:", "data_dir:", "cmd:", "time:", "gpus:">>

WellFormed(d) ==
    /\ d.exists /\ IsFile(d.config) /\ IsFile(d.status)
    /\ Len(d.config) = Len(ConfigKeys)
    /\ \A i \in 1..Len(ConfigKeys) : Head(d.config[i]) = ConfigKeys[i]
    /\ GpusCanParse(Strip(Replace(d.config[5], "gpus:")))

C7_ScanSkipsBadRecords ==
    \A t \in Threads :
        /\ ~(pc[t] = "raised" /\ exc[t].in = "update")
        /\ pc[t] = "updated" =>
               IndexNames(jobs) = {n \in Names : WellFormed(disk[n])}

\* C8: no step of a removal filtered by 'finished' removes a job directory
\* whose persisted status is 'ready' or 'crashed'.  (Spec; add_job can make
\* the job anew between the scan and the deletion.)
C8_RemoveOnlyFinished ==
    [][\A t \in Clients :
          (act[t] = "rm" /\ filter[t] = Finished /\ pc[t] = "removing"
              /\ pc'[t] = "rmdir")
            => PersistedStatus(Head(selected[t]).name) \notin {Ready, Crashed}]_vars

\* C9: the job _read_job reads from the record _write_job wrote has the code
\* path, data path, command, submission time and GPU list of the job
\* written.  (SpecStore; the command comes back with a leading blank.)
C9_RoundTrip ==
    pc["c1"] = "read" =>
        /\ exc["c2"].type = ""
        /\ job["c2"].code_dir = job["c1"].code_dir
        /\ job["c2"].data_dir = job["c1"].data_dir
        /\ job["c2"].cmd = job["c1"].cmd
        /\ job["c2"].time = job["c1"].time
        /\ job["c2"].gpus = job["c1"].gpus

\* C10: when run_job returns and no exception was raised inside it, the
\* job's persisted status is then 'finished', whether the subprocess exited
\* with zero or not.  (Spec)
C10_StreamedIsFinished ==
    [][\A t \in Threads :
          (RunJobEnds(t) /\ pc'[t] = "ret" /\ exc'[t] = NoExc)
            => PersistedStatus(job[t].name)' = Finished]_vars

\* run_job has returned, with no exception inside it, from a job whose
\* subprocess exited with 127, and the job's record says 'finished'
C10_Witness ==
    \E t \in Threads :
        /\ pc[t] = "ret"
        /\ exc[t] = NoExc
        /\ ExitCode(job[t].cmd) = 127
        /\ disk[job[t].name].output = <<>>
        /\ PersistedStatus(job[t].name) = Finished

\* the lines a command writes, on stdout and stderr, as they come
AllLines(cmd) == [i \in 1..Len(Events(cmd)) |-> Events(cmd)[i].line]

\* C11: when run_job returns and no exception was raised inside it, the
\* job's output.txt holds the lines the subprocess wrote on stdout and on
\* stderr, in the order they came, and nothing else.  (SpecRun; stderr goes
\* to a pipe of its own that run_job never reads.)
C11_OutputHoldsAllLines ==
    [][(RunJobEnds("c1") /\ pc'["c1"] = "ret" /\ exc'["c1"] = NoExc)
         => disk'[job["c1"].name].output = AllLines(job["c1"].cmd)]_vars

\* C12: the data-binding step, performed for a job whose snapshot holds the
\* data link already, raises nothing and leaves the link there, whether the
\* data source is on disk or not.  (SpecRun; os.path.exists follows the
\* link, so with the data source absent os.symlink is called again.)
C12_BindIdempotent ==
    [][(pc["c1"] = "bind" /\ pc'["c1"] # "bind"
           /\ disk[job["c1"].name].link)
         => /\ pc'["c1"] = "launch"
            /\ disk'[job["c1"].name].link]_vars

\* C13 as the specification states it: while a job's command executes, the
\* status its directory holds is not 'finished' or 'crashed'.
C13_ReadyWhileExecuting ==
    \A t \in Threads :
        proc[t] # NoProc => PersistedStatus(proc[t].name) \notin {Finished, Crashed}

\* C13: run_job leaves the persisted status as it found it while the command
\* executes; a persisted status changes only by the write of 'finished' or
\* 'crashed' that ends a run attempt of the job of that name, by add_job,
\* which removes it and then writes 'ready', and by rm_job, which removes it.
\* (Spec)
C13_StatusLifecycle ==
    [][\A n \in Names :
          (disk'[n] # disk[n] /\ PersistedStatus(n)' # PersistedStatus(n)) =>
              \E t \in Threads :
                  \/ /\ pc[t] \in {"finish", "crash"} /\ pc'[t] = "ret"
                     /\ job[t].name = n
                     /\ PersistedStatus(n)' \in {Finished, Crashed}
                  \/ /\ pc[t] = "idle" /\ pc'[t] = "writing"
                     /\ job'[t].name = n
                     /\ PersistedStatus(n)' = <<>>
                  \/ /\ pc[t] = "writing" /\ pc'[t] = "idle"
                     /\ job[t].name = n
                     /\ PersistedStatus(n)' = Ready
                  \/ /\ pc[t] \in {"idle", "removing"} /\ pc'[t] = "rmdir"
                     /\ job'[t].name = n
                     /\ PersistedStatus(n)' = <<>>]_vars

\* one thread's run of a job has ended with 'finished' written while another
\* thread's run of that job is still executing its command
C13_Witness ==
    \E t, u \in Threads :
        /\ t # u
        /\ pc[t] = "ret" /\ exc[t] = NoExc
        /\ proc[u] # NoProc /\ proc[u].name = job[t].name
        /\ PersistedStatus(job[t].name) = Finished

\* C14: run_job, while it streams the output of a command that ends once its
\* output is read, is never stuck: it can take the next line, or see the end
\* of the output and go on to write the status.  (SpecRun; with more on
\* stderr than its pipe holds the subprocess blocks, and so does run_job.)
C14_StreamingProceeds ==
    \A t \in Threads : pc[t] = "stream" => ENABLED Stream(t)

\* C15: when run_job ends in the runner for a job whose directory rm_job has
\* removed since oldest() returned it, it returns to the loop.  (Spec; the
\* data link is made outside the try block, and the except clause's
\* write_status raises in turn.)
C15_RunnerSurvivesRemoval ==
    [][(RunJobEnds(Runner) /\ ~disk[job[Runner].name].exists)
         => pc'[Runner] = "ret"]_vars

\* C17: the runner launches no job whose persisted status, when it is
\* launched, is 'finished' or 'crashed'.  (Spec; run_job does not read the
\* status again after the sleep, and another thread's run of the job can
\* have ended since update().)
C17_RunnerLaunchesReadyOnly ==
    [][(pc[Runner] = "launch" /\ pc'[Runner] = "stream")
         => PersistedStatus(job[Runner].name) \notin {Finished, Crashed}]_vars

\* the submission time in the record of a job directory
TimeOnDisk(n) == Strip(Replace(ReadLine(disk[n].config, 4), "time:"))

\* C16: the runner launches a job only when no job with a smaller submission
\* timestamp is 'ready': with two jobs ready at the cycle's update(), the
\* older one is launched first.  (SpecOrder: nobody adds, removes or runs a
\* job but the runner, so the jobs ready on disk at the launch are those
\* ready at the cycle's update().  oldest() takes no lock and can read the
\* index while another thread's update() rebuilds it.)
C16_RunnerLaunchesOldest ==
    [][(pc[Runner] = "launch" /\ pc'[Runner] = "stream")
         => ~\E n \in Names :
                /\ PersistedStatus(n) = Ready
                /\ StrLess(TimeOnDisk(n), job[Runner].time)]_vars

\* the job submitted at time k under the name n is on disk, 'ready'
ReadyOnDisk(n, k) == PersistedStatus(n) = Ready /\ TimeOnDisk(n) = TimeStr(k)

\* the runner has launched the command of that job and has not yet recorded
\* how it ended
Executing(n, k) ==
    /\ pc[Runner] \in {"stream", "finish", "crash"}
    /\ job[Runner].name = n
    /\ job[Runner].time = TimeStr(k)

\* C18: under fair scheduling, a job that add_job has left 'ready' on disk
\* is eventually executed by the runner, unless a later add_job replaces it
\* first or an exception has ended the runner.  (SpecLive; a job submitted
\* under the name of the job that is executing gets that run's 'finished'
\* and is never executed.)
C18_ReadyJobsGetExecuted ==
    \A n \in Names : \A k \in 1..MaxCalls :
        ReadyOnDisk(n, k) ~> \/ Executing(n, k)
                             \/ TimeOnDisk(n) # TimeStr(k)
                             \/ pc[Runner] = "raised"

\* a turn of update()'s loop by thread t: _read_job on a job directory
UpdateReads(t) == pc[t] = "scanning" /\ scan[t] # <<>> /\ scan'[t] # scan[t]

\* load_job by thread t: _read_job on the directory named
LoadReads(t) == pc[t] = "idle" /\ act'[t] = "run"

\* C19: add_job is atomic for update() and load_job: neither reads a job
\* directory while an add_job is between removing the old directory and
\* having written the new records, so what they index or return is never a
\* partly written job.  (Spec.)
C19_AddAtomicForReaders ==
    [][\A t \in Threads :
          (UpdateReads(t) \/ LoadReads(t)) =>
              \A u \in Threads : pc[u] # "writing"]_vars

\* an update() is reading the directories, and its index holds, complete and
\* 'ready', a job that an add_job after the first has written
C19_Witness ==
    \E t \in Threads : \E i \in 1..Len(jobs) :
        /\ pc[t] = "scanning"
        /\ lock = t
        /\ jobs[i].status = Ready
        /\ jobs[i].time # TimeStr(1)
        /\ disk[jobs[i].name].config = ConfigLines(
               [jobs[i] EXCEPT !.cmd = Tail(@)])

\* what a job directory holds when nothing but the job's own records is in it
FreshDir(j) ==
    [exists |-> TRUE, config |-> ConfigLines(j), status |-> StatusLines(Ready),
     snapshot |-> CodeExists(j.code_dir), link |-> FALSE, output |-> NoFile]

\* C20: add_job on a name that has a job directory is a full overwrite: when
\* add_job returns, the directory holds the new snapshot, the new config
\* record and status 'ready', and neither the data link, nor output.txt, nor
\* the status of the job that was there.  (SpecRun: one caller adds, runs and
\* adds again.  run_job takes no lock: a run_job of another thread that goes
\* on while add_job writes can put its data link and its output.txt into the
\* new directory, which is the runner's use of a job replaced meanwhile, C18.)
C20_AddOverwrites ==
    [][(pc["c1"] = "writing" /\ pc'["c1"] = "idle")
         => disk'[job["c1"].name] = FreshDir(job["c1"])]_vars

\* add_job has returned on the name of a job that had been run and had
\* crashed (the process it left behind is still there)
C20_Witness ==
    \E o \in orphans :
        /\ pc["c1"] = "idle"
        /\ PersistedStatus(o.name) = Ready
        /\ disk[o.name].output = NoFile
        /\ ~disk[o.name].link

====
